---- MODULE Spec2Model ----
(***************************************************************************)
(* Model of coach.py: a prompt builder that aggregates Markdown and YAML   *)
(* files into a fixed template and writes the result to an output file.    *)
(*                                                                         *)
(* Text is a sequence of atoms.  An atom is a single character (" ", "\n", *)
(* "{", "}", "x", ...) or a run of non-whitespace literal text ("---",     *)
(* "MISSING").  No multi-character atom starts or ends with whitespace, so *)
(* strip() works on atoms exactly as it does on characters.  YAML file     *)
(* names and YAML file contents are sequences of single characters, so     *)
(* that sorting and len()/slicing are computed character by character.     *)
(***************************************************************************)
EXTENDS Integers, Sequences, FiniteSets, TLC

VARIABLES mdFs, yamlFs, args, pc, markdown_context, yaml_context, prompt,
          outFile, hist, fnIn, fnOut

vars == <<mdFs, yamlFs, args, pc, markdown_context, yaml_context, prompt,
          outFile, hist, fnIn, fnOut>>

mainVars == <<mdFs, yamlFs, args, pc, markdown_context, yaml_context, prompt,
              outFile, hist>>

(***************************************************************************)
(* Bounds of the model.                                                    *)
(***************************************************************************)
MaxMdList == 3
MaxCap == 3
MaxTextLen == 3
MaxCount == 3
MaxMdCtxLen == 3
MaxYamlCtxLen == 1

(***************************************************************************)
(* Program constants.                                                      *)
(***************************************************************************)
DefaultMaxFiles == 50
DefaultMaxChars == 12000

DEFAULT_MD_FILES == <<"goals.md", "skills.md", "injuries.md", "availability.md">>

(***************************************************************************)
(* Generic helpers on sequences.                                           *)
(***************************************************************************)
Range(s) == {s[i] : i \in 1..Len(s)}

Take(s, n) == SubSeq(s, 1, IF n < Len(s) THEN n ELSE Len(s))

Drop(s, n) == SubSeq(s, n + 1, Len(s))

IsPrefix(s, t) == Len(s) <= Len(t) /\ SubSeq(t, 1, Len(s)) = s

Contains(t, s) == \E i \in 0..(Len(t) - Len(s)) : SubSeq(t, i + 1, i + Len(s)) = s

CountAtom(t, a) == Cardinality({i \in 1..Len(t) : t[i] = a})

SeqsUpTo(S, n) == UNION {[1..k -> S] : k \in 0..n}

Perms(S) == {f \in [1..Cardinality(S) -> S] : Range(f) = S}

(***************************************************************************)
(* str.strip(): drop leading and trailing whitespace characters.           *)
(***************************************************************************)
IsSpace(c) == c \in {" ", "\n", "\t"}

RECURSIVE LStrip(_)
LStrip(s) == IF s # <<>> /\ IsSpace(Head(s)) THEN LStrip(Tail(s)) ELSE s

RECURSIVE RStrip(_)
RStrip(s) == IF s # <<>> /\ IsSpace(s[Len(s)]) THEN RStrip(SubSeq(s, 1, Len(s) - 1)) ELSE s

Strip(s) == RStrip(LStrip(s))

(***************************************************************************)
(* sep.join(chunks)                                                        *)
(***************************************************************************)
RECURSIVE Join(_, _)
Join(sep, chunks) ==
    IF chunks = <<>> THEN <<>>
    ELSE IF Len(chunks) = 1 THEN chunks[1]
    ELSE chunks[1] \o sep \o Join(sep, Tail(chunks))

(***************************************************************************)
(* Files.  An entry is what a path names: nothing, a readable regular      *)
(* file, a file that cannot be opened, or a directory.                     *)
(***************************************************************************)
Missing == [kind |-> "missing", text |-> <<>>]
File(t) == [kind |-> "file", text |-> t]
NoPerm == [kind |-> "noperm", text |-> <<>>]
Dir == [kind |-> "dir", text |-> <<>>]

Exists(e) == e.kind # "missing"

\* Mutant: a file that cannot be read counts as empty instead of raising.
read_text_file_lenient(e) ==
    IF e.kind = "file" THEN [raised |-> FALSE, value |-> e.text]
    ELSE [raised |-> FALSE, value |-> <<>>]

\* path.read_text(): the text of a readable regular file, an OSError otherwise.
read_text_file(e) ==
    IF e.kind = "file" THEN [raised |-> FALSE, value |-> e.text]
    ELSE [raised |-> TRUE, value |-> <<>>]

\* str(data_dir / name)
PathOf(data_dir, name) == <<data_dir, "/", name>>

(***************************************************************************)
(* Markdown Aggregator: load_markdown_context.                             *)
(***************************************************************************)
\* f"--- {name} (MISSING: {p}) ---\n"
MissingBlock(data_dir, name) ==
    <<"---", " ", name, " ", "(", "MISSING", ":", " ">> \o PathOf(data_dir, name)
        \o <<")", " ", "---", "\n">>

\* f"--- {name} ---\n{text}\n"
PresentBlock(name, text) == <<"---", " ", name, " ", "---", "\n">> \o text \o <<"\n">>

\* Mutant: the existence check is dropped, every listed file is read.
md_chunk_nocheck(fs, data_dir, name) ==
    LET r == read_text_file(fs[name])
    IN  [raised |-> r.raised, value |-> PresentBlock(name, r.value)]

\* One pass of the loop body: the chunk appended for `name`, or the error raised.
md_chunk(fs, data_dir, name) ==
    IF ~Exists(fs[name])
    THEN [raised |-> FALSE, value |-> MissingBlock(data_dir, name)]
    ELSE LET r == read_text_file(fs[name])
         IN  [raised |-> r.raised, value |-> PresentBlock(name, r.value)]

\* Mutant: a missing file is skipped without a block.
RECURSIVE md_loop_skip(_, _, _, _)
md_loop_skip(fs, data_dir, md_files, chunks) ==
    IF md_files = <<>> THEN [raised |-> FALSE, chunks |-> chunks]
    ELSE LET c == md_chunk(fs, data_dir, Head(md_files))
         IN  IF c.raised THEN [raised |-> TRUE, chunks |-> chunks]
             ELSE md_loop_skip(fs, data_dir, Tail(md_files),
                               IF Exists(fs[Head(md_files)])
                               THEN Append(chunks, c.value) ELSE chunks)

\* for name in md_files: ... chunks.append(...)
RECURSIVE md_loop(_, _, _, _)
md_loop(fs, data_dir, md_files, chunks) ==
    IF md_files = <<>> THEN [raised |-> FALSE, chunks |-> chunks]
    ELSE LET c == md_chunk(fs, data_dir, Head(md_files))
         IN  IF c.raised THEN [raised |-> TRUE, chunks |-> chunks]
             ELSE md_loop(fs, data_dir, Tail(md_files), Append(chunks, c.value))

load_markdown_context(fs, data_dir, md_files) ==
    LET r == md_loop(fs, data_dir, md_files, <<>>)
    IN  [raised |-> r.raised,
         chunks |-> r.chunks,
         value  |-> IF r.raised THEN <<>> ELSE Strip(Join(<<"\n">>, r.chunks))]

(***************************************************************************)
(* YAML Aggregator: load_yaml_context.                                     *)
(***************************************************************************)
\* Code point of a character of a file name.
Ord(c) ==
    CASE c = "." -> 46
      [] c = "B" -> 66
      [] c = "a" -> 97
      [] c = "b" -> 98
      [] c = "l" -> 108
      [] c = "m" -> 109
      [] c = "t" -> 116
      [] c = "x" -> 120
      [] c = "y" -> 121

\* Python's str "<" : lexicographic by code point, a proper prefix is smaller.
RECURSIVE StrLess(_, _)
StrLess(s, t) ==
    IF t = <<>> THEN FALSE
    ELSE IF s = <<>> THEN TRUE
    ELSE IF Head(s) # Head(t) THEN Ord(Head(s)) < Ord(Head(t))
    ELSE StrLess(Tail(s), Tail(t))

RECURSIVE Insert(_, _)
Insert(x, s) ==
    IF s = <<>> THEN <<x>>
    ELSE IF StrLess(x, Head(s)) THEN <<x>> \o s
    ELSE <<Head(s)>> \o Insert(x, Tail(s))

\* Mutant: the listing is used in the order the directory scan gave it.
sorted_unsorted(s) == s

\* sorted(paths): paths of one directory, ordered by file name.
RECURSIVE sorted(_)
sorted(s) == IF s = <<>> THEN <<>> ELSE Insert(Head(s), sorted(Tail(s)))

EndsWith(name, suffix) ==
    Len(name) >= Len(suffix)
    /\ SubSeq(name, Len(name) - Len(suffix) + 1, Len(name)) = suffix

YmlExt == <<".", "y", "m", "l">>
YamlExt == <<".", "y", "a", "m", "l">>

\* yaml_dir.glob("*" + ext): the matching entries, in directory-scan order.
Glob(listing, ext) == SelectSeq(listing, LAMBDA n : EndsWith(n, ext))

\* Mutant: each extension is sorted on its own.
yaml_files_per_ext(yml, yaml) == sorted(yml) \o sorted(yaml)

\* sorted(list(glob("*.yml")) + list(glob("*.yaml")))
yaml_files_of(yml, yaml) == sorted(yml \o yaml)

\* s[:n] with Python's meaning of a negative n (all but the last -n).
Slice(s, n) ==
    IF n >= 0 THEN Take(s, n)
    ELSE IF Len(s) + n > 0 THEN Take(s, Len(s) + n) ELSE <<>>

TruncMarker == <<"\n", "...", " ", "(truncated)", "\n">>

\* Mutant: a text of exactly the cap length is cut as well.
truncate_off_by_one(text, max_chars) ==
    IF Len(text) >= max_chars THEN Slice(text, max_chars) \o TruncMarker ELSE text

\* if len(text) > max_chars_per_file: text = text[:max_chars_per_file] + marker
truncate(text, max_chars) ==
    IF Len(text) > max_chars THEN Slice(text, max_chars) \o TruncMarker ELSE text

\* f"--- {p.name} ---\n{text}\n"
YamlBlock(name, text) == <<"---", " ">> \o name \o <<" ", "---", "\n">> \o text \o <<"\n">>

\* f"... ({k} more YAML files not included)\n"
SummaryLine(k) ==
    <<"...", " ", "(", ToString(k), " ", "more", " ", "YAML", " ", "files", " ", "not",
      " ", "included", ")", "\n">>

NoFolderMsg == <<"(", "No", " ", "YAML", " ", "folder", " ", "found.", " ", "Skipping.", ")">>
NoFilesMsg == <<"(", "No", " ", "YAML", " ", "files", " ", "found.", " ", "Skipping.", ")">>

\* for p in yaml_files[:max_files]: read, truncate, append
RECURSIVE yaml_loop(_, _, _, _)
yaml_loop(entries, files, max_chars, chunks) ==
    IF files = <<>> THEN [raised |-> FALSE, chunks |-> chunks]
    ELSE LET r == read_text_file(entries[Head(files)])
         IN  IF r.raised THEN [raised |-> TRUE, chunks |-> chunks]
             ELSE yaml_loop(entries, Tail(files), max_chars,
                            Append(chunks, YamlBlock(Head(files), truncate(r.value, max_chars))))

\* if len(yaml_files) > max_files: chunks.append(summary)
yaml_summary(n, max_files) ==
    IF n > max_files THEN <<SummaryLine(n - max_files)>> ELSE <<>>

\* Mutant: an empty directory is reported like a missing one.
yaml_empty_msg_folder == NoFolderMsg

\* The message returned when the directory holds no YAML file.
yaml_empty_msg == NoFilesMsg

\* dir: [kind, entries]; ymlScan / yamlScan: the two glob results.
load_yaml_context(dir, ymlScan, yamlScan, max_files, max_chars) ==
    IF dir.kind # "dir"
    THEN [raised |-> FALSE, chunks |-> <<>>, files |-> <<>>, value |-> NoFolderMsg]
    ELSE LET yaml_files == yaml_files_of(ymlScan, yamlScan)
         IN  IF yaml_files = <<>>
             THEN [raised |-> FALSE, chunks |-> <<>>, files |-> <<>>, value |-> yaml_empty_msg]
             ELSE LET r == yaml_loop(dir.entries, Slice(yaml_files, max_files), max_chars, <<>>)
                      chunks == r.chunks \o yaml_summary(Len(yaml_files), max_files)
                  IN  [raised |-> r.raised,
                       chunks |-> chunks,
                       files  |-> yaml_files,
                       value  |-> IF r.raised THEN <<>> ELSE Strip(Join(<<"\n">>, chunks))]

(***************************************************************************)
(* Prompt Builder: PROMPT_TEMPLATE and build_prompt.                       *)
(***************************************************************************)
\* Template text up to the first placeholder; it holds no brace.
TemplateHead == <<"SYSTEM / ROLE ... MARKDOWN CONTEXT", "\n", "========================", "\n">>

\* Template text between the two placeholders; it holds no brace.
TemplateMid ==
    <<"\n", "\n", "========================", "\n", "YAML TRAINING HISTORY (REFERENCE ONLY)",
      "\n", "========================", "\n">>

\* Template text after the second placeholder.
TemplateTail == <<"\n">>

PROMPT_TEMPLATE ==
    TemplateHead \o <<"{", "markdown_context", "}">> \o TemplateMid
        \o <<"{", "yaml_context", "}">> \o TemplateTail

\* str.format(**kwargs): one left-to-right scan of the format string.  "{{" and
\* "}}" are escapes, "{name}" is replaced by kwargs[name], which is copied to
\* the output and not scanned.  A lone brace is a ValueError, an unknown
\* name a KeyError.
RECURSIVE Format(_, _, _)
Format(fmt, kwargs, acc) ==
    IF fmt = <<>> THEN [raised |-> FALSE, value |-> acc]
    ELSE IF Head(fmt) = "{"
    THEN IF Len(fmt) >= 2 /\ fmt[2] = "{"
         THEN Format(Drop(fmt, 2), kwargs, Append(acc, "{"))
         ELSE IF Len(fmt) >= 3 /\ fmt[3] = "}" /\ fmt[2] \in DOMAIN kwargs
         THEN Format(Drop(fmt, 3), kwargs, acc \o kwargs[fmt[2]])
         ELSE [raised |-> TRUE, value |-> <<>>]
    ELSE IF Head(fmt) = "}"
    THEN IF Len(fmt) >= 2 /\ fmt[2] = "}"
         THEN Format(Drop(fmt, 2), kwargs, Append(acc, "}"))
         ELSE [raised |-> TRUE, value |-> <<>>]
    ELSE Format(Tail(fmt), kwargs, Append(acc, Head(fmt)))

\* Mutant helper: str.replace of every occurrence of "{name}" by `by`.
RECURSIVE ReplaceAll(_, _, _)
ReplaceAll(text, name, by) ==
    IF text = <<>> THEN <<>>
    ELSE IF Len(text) >= 3 /\ SubSeq(text, 1, 3) = <<"{", name, "}">>
    THEN by \o ReplaceAll(Drop(text, 3), name, by)
    ELSE <<Head(text)>> \o ReplaceAll(Tail(text), name, by)

\* Mutant: the placeholders are filled by two successive replacements, so a
\* placeholder inside the inserted Markdown text is expanded again.
build_prompt_replace(markdown_context_, yaml_context_) ==
    [raised |-> FALSE,
     value  |-> ReplaceAll(ReplaceAll(PROMPT_TEMPLATE, "markdown_context", markdown_context_),
                           "yaml_context", yaml_context_)]

build_prompt(markdown_context_, yaml_context_) ==
    Format(PROMPT_TEMPLATE,
           [markdown_context |-> markdown_context_, yaml_context |-> yaml_context_], <<>>)

(***************************************************************************)
(* Entry Point: main, run by two uncoordinated instances that share the    *)
(* filesystem and the output path.                                         *)
(***************************************************************************)
Procs == {1, 2}

Unset == <<"<unset>">>

\* What the output path holds before any run.
PrevContent == <<"previous", " ", "prompt">>

\* The text of each expected Markdown file, when it is present.
MdText(name) ==
    CASE name = "goals.md" -> <<"Goal:", " ", "run", " ", "5k">>
      [] name = "skills.md" -> <<"squat", "\n">>
      [] name = "injuries.md" -> <<"ankle">>
      [] name = "availability.md" -> <<"Mon", "\n", "\n">>

MainYamlNames == {<<"b", ".", "y", "m", "l">>, <<"a", ".", "y", "m", "l">>}

YamlText == <<"x", ":", "\n">>

\* A directory holding `names`, each a readable file or a directory.
DirsOver(names, kinds) ==
    {[kind |-> "dir", entries |-> e] : e \in UNION {[S -> kinds] : S \in SUBSET names}}

NoDir == [kind |-> "missing", entries |-> <<>>]
NotADir == [kind |-> "file", entries |-> <<>>]

\* The values --max-yaml-files takes in the model (type=int, default 50).
MainMaxFiles == {0, 1, DefaultMaxFiles}

MainIdle ==
    /\ mdFs = [n \in Range(DEFAULT_MD_FILES) |-> Missing]
    /\ yamlFs = NoDir
    /\ args = [p \in Procs |-> [max_yaml_files |-> DefaultMaxFiles]]
    /\ pc = [p \in Procs |-> "done"]
    /\ markdown_context = [p \in Procs |-> Unset]
    /\ yaml_context = [p \in Procs |-> Unset]
    /\ prompt = [p \in Procs |-> Unset]
    /\ outFile = PrevContent
    /\ hist = <<>>

Init ==
    /\ mdFs \in [Range(DEFAULT_MD_FILES) -> {"missing", "file", "noperm"}]
    /\ yamlFs \in {NoDir, NotADir} \cup DirsOver(MainYamlNames, {File(YamlText), Dir})
    /\ args \in [Procs -> [max_yaml_files : MainMaxFiles]]
    /\ pc = [p \in Procs |-> "markdown"]
    /\ markdown_context = [p \in Procs |-> Unset]
    /\ yaml_context = [p \in Procs |-> Unset]
    /\ prompt = [p \in Procs |-> Unset]
    /\ outFile = PrevContent
    /\ hist = <<>>
    /\ fnIn = <<>>
    /\ fnOut = <<>>

\* The entries of the data directory that mdFs describes.
MdEntries ==
    [n \in Range(DEFAULT_MD_FILES) |->
        CASE mdFs[n] = "missing" -> Missing
          [] mdFs[n] = "file" -> File(MdText(n))
          [] mdFs[n] = "noperm" -> NoPerm]

\* markdown_context = load_markdown_context(data_dir, DEFAULT_MD_FILES)
LoadMarkdown(p) ==
    /\ pc[p] = "markdown"
    /\ LET r == load_markdown_context(MdEntries, "data", DEFAULT_MD_FILES)
       IN  IF r.raised
           THEN /\ pc' = [pc EXCEPT ![p] = "error"]
                /\ UNCHANGED markdown_context
           ELSE /\ pc' = [pc EXCEPT ![p] = "yaml"]
                /\ markdown_context' = [markdown_context EXCEPT ![p] = r.value]
    /\ UNCHANGED <<mdFs, yamlFs, args, yaml_context, prompt, outFile, hist, fnIn, fnOut>>

\* yaml_context = load_yaml_context(yaml_dir, max_files=args.max_yaml_files)
\* Each of the two globs scans the directory in an order of its own.
LoadYaml(p) ==
    /\ pc[p] = "yaml"
    /\ \E scan1, scan2 \in Perms(DOMAIN yamlFs.entries) :
         LET r == load_yaml_context(yamlFs, Glob(scan1, YmlExt), Glob(scan2, YamlExt),
                                    args[p].max_yaml_files, DefaultMaxChars)
         IN  IF r.raised
             THEN /\ pc' = [pc EXCEPT ![p] = "error"]
                  /\ UNCHANGED yaml_context
             ELSE /\ pc' = [pc EXCEPT ![p] = "build"]
                  /\ yaml_context' = [yaml_context EXCEPT ![p] = r.value]
    /\ UNCHANGED <<mdFs, yamlFs, args, markdown_context, prompt, outFile, hist, fnIn, fnOut>>

\* prompt = build_prompt(markdown_context, yaml_context)
BuildPrompt(p) ==
    /\ pc[p] = "build"
    /\ LET r == build_prompt(markdown_context[p], yaml_context[p])
       IN  IF r.raised
           THEN /\ pc' = [pc EXCEPT ![p] = "error"]
                /\ UNCHANGED prompt
           ELSE /\ pc' = [pc EXCEPT ![p] = "open"]
                /\ prompt' = [prompt EXCEPT ![p] = r.value]
    /\ UNCHANGED <<mdFs, yamlFs, args, markdown_context, yaml_context, outFile, hist, fnIn, fnOut>>

\* out_path.write_text(prompt), first half: open(mode "w") truncates the file.
OpenOut(p) ==
    /\ pc[p] = "open"
    /\ outFile' = <<>>
    /\ hist' = Append(hist, <<p, "open">>)
    /\ pc' = [pc EXCEPT ![p] = "write"]
    /\ UNCHANGED <<mdFs, yamlFs, args, markdown_context, yaml_context, prompt, fnIn, fnOut>>

\* Mutant: the file is opened for appending.
WriteAt_append(file, data) == file \o data

\* A write of `data` through a descriptor whose offset is 0.
WriteAt(file, data) == data \o Drop(file, Len(data))

\* out_path.write_text(prompt), second half: the write and the close.
WriteOut(p) ==
    /\ pc[p] = "write"
    /\ outFile' = WriteAt(outFile, prompt[p])
    /\ hist' = Append(hist, <<p, "write">>)
    /\ pc' = [pc EXCEPT ![p] = "done"]
    /\ UNCHANGED <<mdFs, yamlFs, args, markdown_context, yaml_context, prompt, fnIn, fnOut>>

Next ==
    \E p \in Procs :
        \/ LoadMarkdown(p)
        \/ LoadYaml(p)
        \/ BuildPrompt(p)
        \/ OpenOut(p)
        \/ WriteOut(p)

Spec == Init /\ [][Next]_vars

(***************************************************************************)
(* load_markdown_context called on its own: any list of names over a small *)
(* data directory in any state.                                            *)
(***************************************************************************)
NoResult == [raised |-> FALSE, pending |-> TRUE]

MdListNames == {"goals.md", "skills.md"}

MdEntryStates == {Missing, NoPerm, File(<<>>), File(<<"x", "\n">>)}

MdInit ==
    /\ MainIdle
    /\ fnIn \in [fs : [MdListNames -> MdEntryStates],
                 data_dir : {"data", "vault"},
                 md_files : SeqsUpTo(MdListNames, MaxMdList)]
    /\ fnOut = NoResult

MdCall ==
    /\ fnOut = NoResult
    /\ fnOut' = load_markdown_context(fnIn.fs, fnIn.data_dir, fnIn.md_files)
    /\ UNCHANGED <<fnIn, mainVars>>

MdNext == MdCall

MdSpec == MdInit /\ [][MdNext]_vars

(***************************************************************************)
(* load_yaml_context called on its own: any set of directory entries, any  *)
(* scan order for each glob, any file count cap the option parser accepts, *)
(* any text up to a small length and any character cap.                    *)
(***************************************************************************)
YamlUniverse ==
    {<<"a", ".", "y", "m", "l">>, <<"a", ".", "y", "a", "m", "l">>,
     <<"B", ".", "y", "m", "l">>, <<"b", ".", "t", "x", "t">>}

YamlTexts == SeqsUpTo({"x", "\n"}, MaxTextLen)

\* Directories and file count caps: the texts are fixed, the cap is the default.
YamlInitListing ==
    \E S \in SUBSET YamlUniverse :
        fnIn \in [dir : {[kind |-> "dir", entries |-> [n \in S |-> File(YamlText)]]},
                  scan1 : Perms(S),
                  scan2 : Perms(S),
                  max_files : (0 - MaxCount)..(MaxCount + 1),
                  max_chars : {DefaultMaxChars}]

TruncNames == {<<"a", ".", "y", "m", "l">>, <<"a", ".", "y", "a", "m", "l">>}

\* Texts and character caps: two files, in either scan order.
YamlInitTexts ==
    fnIn \in [dir : {[kind |-> "dir", entries |-> e] :
                        e \in [TruncNames -> {File(t) : t \in YamlTexts}]},
              scan1 : Perms(TruncNames),
              scan2 : Perms(TruncNames),
              max_files : {1, DefaultMaxFiles},
              max_chars : 0..MaxCap]

YamlInit ==
    /\ MainIdle
    /\ YamlInitListing \/ YamlInitTexts
    /\ fnOut = NoResult

YamlCall ==
    /\ fnOut = NoResult
    /\ fnOut' = load_yaml_context(fnIn.dir, Glob(fnIn.scan1, YmlExt), Glob(fnIn.scan2, YamlExt),
                                  fnIn.max_files, fnIn.max_chars)
    /\ UNCHANGED <<fnIn, mainVars>>

YamlNext == YamlCall

YamlSpec == YamlInit /\ [][YamlNext]_vars

(***************************************************************************)
(* build_prompt called on its own: any pair of short context strings over  *)
(* an alphabet that holds the braces and the placeholder names.            *)
(***************************************************************************)
CtxAlphabet == {"{", "}", "markdown_context", "yaml_context", "x"}

FmtInit ==
    /\ MainIdle
    /\ fnIn \in [markdown_context : SeqsUpTo(CtxAlphabet, MaxMdCtxLen),
                 yaml_context : SeqsUpTo(CtxAlphabet, MaxYamlCtxLen)]
    /\ fnOut = NoResult

FmtCall ==
    /\ fnOut = NoResult
    /\ fnOut' = build_prompt(fnIn.markdown_context, fnIn.yaml_context)
    /\ UNCHANGED <<fnIn, mainVars>>

FmtNext == FmtCall

FmtSpec == FmtInit /\ [][FmtNext]_vars

(***************************************************************************)
(* Properties of load_yaml_context (checked under YamlSpec).               *)
(***************************************************************************)
Returned == "value" \in DOMAIN fnOut

\* The names of the directory that one of the two patterns matches.
Discovered == {n \in DOMAIN fnIn.dir.entries : EndsWith(n, YmlExt) \/ EndsWith(n, YamlExt)}

\* The order Python gives the names of the model: "B" < "a", ".yaml" < ".yml".
ExpectedOrder ==
    <<<<"B", ".", "y", "m", "l">>, <<"a", ".", "y", "a", "m", "l">>, <<"a", ".", "y", "m", "l">>>>

DiscoveredInOrder == SelectSeq(ExpectedOrder, LAMBDA n : n \in Discovered)

YamlHeader(name) == <<"---", " ">> \o name \o <<" ", "---", "\n">>

IsSummary(chunk) == Len(chunk) > 0 /\ chunk[1] = "..."

FileBlocks == SelectSeq(fnOut.chunks, LAMBDA c : ~IsSummary(c))

SummaryBlocks == SelectSeq(fnOut.chunks, LAMBDA c : IsSummary(c))

\* C1: whenever more YAML files are discovered than the file count cap, for
\* every cap the option accepts (zero and negative ones too), the result
\* holds exactly max_files file blocks, the first ones in sorted order, and
\* then exactly one summary line whose number is N - max_files.  (N >= 1:
\* a directory without YAML files has its own fixed message.)
C1_CapExceeded ==
    (Returned /\ Cardinality(Discovered) >= 1 /\ Cardinality(Discovered) > fnIn.max_files) =>
        /\ ~fnOut.raised
        /\ Len(FileBlocks) = fnIn.max_files
        /\ \A i \in 1..Len(FileBlocks) :
               IsPrefix(YamlHeader(DiscoveredInOrder[i]), fnOut.chunks[i])
        /\ Len(SummaryBlocks) = 1
        /\ fnOut.chunks[Len(fnOut.chunks)]
               = SummaryLine(Cardinality(Discovered) - fnIn.max_files)

\* C5: with N >= 1 discovered files and N <= max_files, all N files appear
\* as blocks, ordered by file name across both extensions, and the result
\* holds no "more YAML files not included" line.
C5_AllIncluded ==
    (Returned /\ Cardinality(Discovered) >= 1 /\ Cardinality(Discovered) <= fnIn.max_files) =>
        /\ ~fnOut.raised
        /\ Len(fnOut.chunks) = Cardinality(Discovered)
        /\ \A i \in 1..Len(fnOut.chunks) :
               IsPrefix(YamlHeader(DiscoveredInOrder[i]), fnOut.chunks[i])
        /\ ~Contains(fnOut.value, <<"more", " ", "YAML", " ", "files", " ", "not", " ", "included">>)
        /\ CountAtom(fnOut.value, "---") = 2 * Cardinality(Discovered)

C5_Witness ==
    /\ Returned
    /\ Cardinality(Discovered) = 3
    /\ fnIn.max_files = 3
    /\ fnIn.scan1 # fnIn.scan2
    /\ Len(fnOut.chunks) = 3

MdHeaderStart(name) == <<"---", " ", name, " ">>

\* C4: for every ordered list of file names, present or missing in any
\* combination, the result holds exactly one block per listed name, and the
\* blocks are in the order of the list.
C4_OneBlockPerName ==
    (Returned /\ ~fnOut.raised) =>
        /\ Len(fnOut.chunks) = Len(fnIn.md_files)
        /\ \A i \in 1..Len(fnIn.md_files) :
               LET name == fnIn.md_files[i]
                   e == fnIn.fs[name]
               IN  /\ IsPrefix(MdHeaderStart(name), fnOut.chunks[i])
                   /\ Contains(fnOut.chunks[i], <<"MISSING">>) <=> e.kind = "missing"
                   /\ e.kind = "file" =>
                          fnOut.chunks[i] = <<"---", " ", name, " ", "---", "\n">> \o e.text \o <<"\n">>
        /\ CountAtom(fnOut.value, "---") = 2 * Len(fnIn.md_files)
        /\ \A i \in 1..Len(fnIn.md_files) :
               \E k \in 0..Len(fnOut.value) :
                   /\ CountAtom(SubSeq(fnOut.value, 1, k), "---") = 2 * (i - 1)
                   /\ IsPrefix(MdHeaderStart(fnIn.md_files[i]), Drop(fnOut.value, k))

C4_Witness ==
    /\ Returned
    /\ ~fnOut.raised
    /\ fnIn.md_files = <<"skills.md", "goals.md", "skills.md">>
    /\ fnIn.fs["skills.md"].kind = "missing"
    /\ fnIn.fs["goals.md"].kind = "file"
    /\ Len(fnOut.chunks) = 3

(***************************************************************************)
(* Properties of build_prompt (checked under FmtSpec).                     *)
(***************************************************************************)
\* C10: build_prompt has no error path and inserts its arguments verbatim:
\* for every pair of context strings, also ones that hold braces or the
\* text of a placeholder, it does not raise and returns the template head,
\* the Markdown context, the template middle, the YAML context and the
\* template tail; inserted text is never expanded again.
C10_Verbatim ==
    Returned =>
        /\ ~fnOut.raised
        /\ fnOut.value = TemplateHead \o fnIn.markdown_context \o TemplateMid
                             \o fnIn.yaml_context \o TemplateTail

C10_Witness ==
    /\ Returned
    /\ fnIn.markdown_context = <<"{", "yaml_context", "}">>
    /\ fnIn.yaml_context = <<"}">>
    /\ Contains(fnOut.value, <<"{", "yaml_context", "}">>)

(***************************************************************************)
(* Properties of main (checked under Spec).                                *)
(***************************************************************************)
Other(p) == CHOOSE q \in Procs : q # p

AllDone == \A p \in Procs : pc[p] = "done"

Did(p, op) == <<p, op>> \in Range(hist)

Times(p, op) == Cardinality({i \in 1..Len(hist) : hist[i] = <<p, op>>})

IndexOf(p, op) == CHOOSE i \in 1..Len(hist) : hist[i] = <<p, op>>

AllMdMissing == \A n \in Range(DEFAULT_MD_FILES) : mdFs[n] = "missing"

\* An expected Markdown file exists and cannot be read.
MdReadFails == \E n \in Range(DEFAULT_MD_FILES) : mdFs[n] = "noperm"

\* The order of the YAML names of the data directory of the model.
MainExpectedOrder == <<<<"a", ".", "y", "m", "l">>, <<"b", ".", "y", "m", "l">>>>

\* A directory matches a YAML pattern and is among the first max_files names.
YamlReadFails(p) ==
    /\ yamlFs.kind = "dir"
    /\ \E i \in 1..Len(MainExpectedOrder) :
           LET n == MainExpectedOrder[i]
               before == {j \in 1..(i - 1) : MainExpectedOrder[j] \in DOMAIN yamlFs.entries}
           IN  /\ n \in DOMAIN yamlFs.entries
               /\ yamlFs.entries[n].kind = "dir"
               /\ Cardinality(before) < args[p].max_yaml_files

\* "--- <name> (MISSING: data/<name>) ---" without the final line break.
MissingLine(n) ==
    <<"---", " ", n, " ", "(", "MISSING", ":", " ", "data", "/", n, ")", " ", "---">>

\* C3: a listed name whose path does not exist yields a block that holds the
\* literal MISSING and the file's path; the call does not raise for it, the
\* other names are still processed, and main goes on to write the output
\* file, also when all four default files are missing.
C3_MissingTolerated ==
    \A p \in Procs :
        /\ (pc[p] = "error" /\ markdown_context[p] = Unset) => MdReadFails
        /\ (~MdReadFails) => (pc[p] = "markdown" \/ markdown_context[p] # Unset)
        /\ markdown_context[p] # Unset =>
               \A n \in Range(DEFAULT_MD_FILES) :
                   /\ mdFs[n] = "missing" => Contains(markdown_context[p], MissingLine(n))
                   /\ mdFs[n] = "file" =>
                          Contains(markdown_context[p], <<"---", " ", n, " ", "---", "\n">>)
        /\ (AllMdMissing /\ ~YamlReadFails(p)) =>
               /\ pc[p] # "error"
               /\ pc[p] = "done" => Did(p, "write")

C3_Witness ==
    /\ AllMdMissing
    /\ AllDone
    /\ \A n \in Range(DEFAULT_MD_FILES) : Contains(outFile, MissingLine(n))
    /\ CountAtom(outFile, "MISSING") = 4

\* The Markdown section of the end-to-end example.
C2_Markdown ==
    <<"---", " ", "goals.md", " ", "---", "\n", "Goal:", " ", "run", " ", "5k", "\n", "\n">>
        \o MissingLine("skills.md") \o <<"\n", "\n">>
        \o MissingLine("injuries.md") \o <<"\n", "\n">>
        \o MissingLine("availability.md")

C2_NoFolder == <<"(", "No", " ", "YAML", " ", "folder", " ", "found.", " ", "Skipping.", ")">>

C2_NoFiles == <<"(", "No", " ", "YAML", " ", "files", " ", "found.", " ", "Skipping.", ")">>

C2_Case ==
    /\ mdFs["goals.md"] = "file"
    /\ \A n \in Range(DEFAULT_MD_FILES) \ {"goals.md"} : mdFs[n] = "missing"

C2_DirAbsent == yamlFs.kind = "missing"

C2_DirEmpty == yamlFs.kind = "dir" /\ DOMAIN yamlFs.entries = {}

C2_Written(yaml) == TemplateHead \o C2_Markdown \o TemplateMid \o yaml \o TemplateTail

\* C2 as stated: with goals.md = "Goal: run 5k" and the three other files
\* absent, the written file has one present block and three MISSING blocks
\* and its YAML section is "(No YAML folder found. Skipping.)" both when
\* the YAML directory does not exist and when it exists and is empty.
C2_Original ==
    (C2_Case /\ (C2_DirAbsent \/ C2_DirEmpty) /\ AllDone) =>
        outFile = C2_Written(C2_NoFolder)

\* C2 as amended: the same run writes the YAML section "(No YAML folder
\* found. Skipping.)" when the YAML directory does not exist, and "(No YAML
\* files found. Skipping.)" when it exists and is empty.
C2_EndToEnd ==
    C2_Case =>
        /\ \A p \in Procs :
               /\ markdown_context[p] # Unset => markdown_context[p] = C2_Markdown
               /\ (C2_DirAbsent /\ yaml_context[p] # Unset) => yaml_context[p] = C2_NoFolder
               /\ (C2_DirEmpty /\ yaml_context[p] # Unset) => yaml_context[p] = C2_NoFiles
        /\ (C2_DirAbsent /\ AllDone) => outFile = C2_Written(C2_NoFolder)
        /\ (C2_DirEmpty /\ AllDone) => outFile = C2_Written(C2_NoFiles)

C2_Witness ==
    /\ C2_Case
    /\ C2_DirEmpty
    /\ AllDone
    /\ outFile = C2_Written(C2_NoFiles)

\* C7: each of the two template placeholders is replaced exactly once, all
\* other template text is reproduced unaltered, and two runs over the same
\* files with the same options write the same output.
C7_Deterministic ==
    /\ \A p \in Procs :
           prompt[p] # Unset =>
               /\ IsPrefix(TemplateHead \o markdown_context[p] \o TemplateMid, prompt[p])
               /\ Drop(prompt[p], Len(TemplateHead) + Len(markdown_context[p]) + Len(TemplateMid))
                      = yaml_context[p] \o TemplateTail
               /\ CountAtom(prompt[p], "{") = 0
               /\ CountAtom(prompt[p], "}") = 0
               /\ CountAtom(prompt[p], TemplateHead[1]) = 1
    /\ \A p, q \in Procs :
           (args[p] = args[q] /\ prompt[p] # Unset /\ prompt[q] # Unset) => prompt[p] = prompt[q]
    /\ \A p \in Procs :
           (args[p] = args[Other(p)] /\ pc[p] = "done" /\ pc[Other(p)] \in {"open", "done"}) =>
               outFile = prompt[p]

C7_Witness ==
    /\ AllDone
    /\ args[1] = args[2]
    /\ args[1].max_yaml_files = DefaultMaxFiles
    /\ Cardinality(DOMAIN yamlFs.entries) = 2
    /\ mdFs["goals.md"] = "file"
    /\ outFile = prompt[1]
    /\ outFile = prompt[2]

\* C8: in every run the output file is written at most once, and only after
\* the Markdown aggregation and then the YAML aggregation have completed;
\* when a read of the aggregation fails the run ends with an error and has
\* not touched the output path, whose previous content stays.
C8_WriteLast ==
    /\ \A p \in Procs :
           /\ Times(p, "open") <= 1
           /\ Times(p, "write") <= 1
           /\ Did(p, "write") => Did(p, "open")
           /\ Did(p, "open") =>
                  /\ markdown_context[p] # Unset
                  /\ yaml_context[p] # Unset
                  /\ prompt[p] # Unset
           /\ yaml_context[p] # Unset => markdown_context[p] # Unset
           /\ (MdReadFails \/ YamlReadFails(p)) =>
                  /\ pc[p] \in {"markdown", "yaml", "error"}
                  /\ MdReadFails => pc[p] \in {"markdown", "error"}
                  /\ ~Did(p, "open")
           /\ pc[p] = "error" =>
                  /\ MdReadFails \/ YamlReadFails(p)
                  /\ ~Did(p, "open")
                  /\ ~Did(p, "write")
    /\ hist = <<>> => outFile = PrevContent
    /\ (\A p \in Procs : pc[p] = "error") => outFile = PrevContent

C8_Witness ==
    /\ \A p \in Procs : pc[p] = "error"
    /\ markdown_context[1] # Unset
    /\ yaml_context[1] = Unset
    /\ outFile = PrevContent

LastWriter == hist[Len(hist)][1]

\* The other instance wrote between the last writer's open and its write.
Overlapped == IndexOf(Other(LastWriter), "write") > IndexOf(LastWriter, "open")

\* C9 as stated: once both instances have finished, the output file is
\* exactly the complete prompt of the instance whose write happened last,
\* never a mixture of the two prompts.
C9_Original == AllDone => outFile = prompt[LastWriter]

\* C9 as amended: once both instances have finished, the output file begins
\* with the complete prompt of the instance whose write happened last.  It
\* is exactly that prompt when the other instance wrote before the last
\* writer opened the file, or wrote a prompt that is not longer; otherwise
\* it is that prompt followed by the rest of the other, longer prompt.
C9_LastWriterPrefix ==
    AllDone =>
        LET w == LastWriter
            o == Other(LastWriter)
        IN  /\ IsPrefix(prompt[w], outFile)
            /\ (~Overlapped \/ Len(prompt[o]) <= Len(prompt[w])) => outFile = prompt[w]
            /\ (Overlapped /\ Len(prompt[o]) > Len(prompt[w])) =>
                   /\ outFile = prompt[w] \o Drop(prompt[o], Len(prompt[w]))
                   /\ outFile # prompt[w]
                   /\ outFile # prompt[o]

C9_Witness ==
    /\ AllDone
    /\ Overlapped
    /\ Len(prompt[Other(LastWriter)]) > Len(prompt[LastWriter])
    /\ outFile # prompt[1]
    /\ outFile # prompt[2]

====
